---- MODULE Spec2Model ----
(***************************************************************************)
(* Model of frontend/lib/api.ts: the registry API client.                  *)
(*                                                                         *)
(* A JavaScript string is a sequence of one-character strings, so that     *)
(* template interpolation is concatenation (\o) and the encoders           *)
(* (String(), URLSearchParams serialisation, JSON.stringify, JSON.parse)   *)
(* work character by character.  An optional value is a sequence of        *)
(* length 0 (absent or undefined) or 1 (present).                          *)
(***************************************************************************)
EXTENDS Integers, Sequences, FiniteSets, TLC

\* Number of call slots that may be in flight at once.
MaxCalls == 2

Calls == 1..MaxCalls

None == <<>>

Some(v) == <<v>>

-----------------------------------------------------------------------------
(* String literals of the source.                                          *)

\* 'http://localhost:3001'
DEFAULT_API_URL ==
  <<"h", "t", "t", "p", ":", "/", "/", "l", "o", "c", "a", "l", "h", "o", "s", "t", ":", "3", "0", "0", "1">>

\* '/api/contracts'
S_api_contracts ==
  <<"/", "a", "p", "i", "/", "c", "o", "n", "t", "r", "a", "c", "t", "s">>

\* '/api/publishers'
S_api_publishers ==
  <<"/", "a", "p", "i", "/", "p", "u", "b", "l", "i", "s", "h", "e", "r", "s">>

\* '/api/stats'
S_api_stats ==
  <<"/", "a", "p", "i", "/", "s", "t", "a", "t", "s">>

\* '/versions'
S_versions ==
  <<"/", "v", "e", "r", "s", "i", "o", "n", "s">>

\* '/contracts'
S_contracts ==
  <<"/", "c", "o", "n", "t", "r", "a", "c", "t", "s">>

S_query == <<"q", "u", "e", "r", "y">>

S_network == <<"n", "e", "t", "w", "o", "r", "k">>

S_verified_only == <<"v", "e", "r", "i", "f", "i", "e", "d", "_", "o", "n", "l", "y">>

S_category == <<"c", "a", "t", "e", "g", "o", "r", "y">>

S_page == <<"p", "a", "g", "e">>

S_page_size == <<"p", "a", "g", "e", "_", "s", "i", "z", "e">>

S_tags == <<"t", "a", "g", "s">>

\* 'Content-Type'
S_ContentType ==
  <<"C", "o", "n", "t", "e", "n", "t", "-", "T", "y", "p", "e">>

\* 'application/json'
S_application_json ==
  <<"a", "p", "p", "l", "i", "c", "a", "t", "i", "o", "n", "/", "j", "s", "o", "n">>

-----------------------------------------------------------------------------
(* JavaScript conversions used by the source.                              *)

Digits == <<"0", "1", "2", "3", "4", "5", "6", "7", "8", "9">>

\* String(n) for a non-negative integer n: its decimal digits.
RECURSIVE NumberToString(_)
NumberToString(n) ==
  IF n < 10 THEN <<Digits[n + 1]>>
  ELSE NumberToString(n \div 10) \o <<Digits[(n % 10) + 1]>>

\* String(b) for a boolean b.
BooleanToString(b) ==
  IF b THEN <<"t", "r", "u", "e">> ELSE <<"f", "a", "l", "s", "e">>

\* ToBoolean of an optional string: undefined and '' are falsy.
TruthyString(o) == o # None /\ o[1] # <<>>

\* Variant: `!== undefined` in place of the truthiness test.
TruthyNumber_defined(o) == o # None

\* ToBoolean of an optional number: undefined and 0 are falsy.
TruthyNumber(o) == o # None /\ o[1] # 0

\* x || y on strings, x optional.
OrElse(o, d) == IF TruthyString(o) THEN o[1] ELSE d

\* Characters the application/x-www-form-urlencoded serialiser leaves alone.
FormSafe ==
  {"a", "b", "c", "d", "e", "f", "g", "h", "i", "j", "k", "l", "m", "n", "o",
   "p", "q", "r", "s", "t", "u", "v", "w", "x", "y", "z",
   "0", "1", "2", "3", "4", "5", "6", "7", "8", "9", "*", "-", ".", "_"}

\* One character, form-urlencoded (the characters the model's inputs use).
FormEncodeChar(ch) ==
  CASE ch \in FormSafe -> <<ch>>
    [] ch = " " -> <<"+">>
    [] ch = "&" -> <<"%", "2", "6">>
    [] ch = "=" -> <<"%", "3", "D">>
    [] ch = "+" -> <<"%", "2", "B">>
    [] ch = "%" -> <<"%", "2", "5">>
    [] ch = "?" -> <<"%", "3", "F">>
    [] ch = "/" -> <<"%", "2", "F">>

RECURSIVE FormEncode(_)
FormEncode(s) ==
  IF s = <<>> THEN <<>> ELSE FormEncodeChar(Head(s)) \o FormEncode(Tail(s))

\* URLSearchParams.prototype.toString: name=value pairs joined by '&'.
RECURSIVE URLSearchParams_toString(_)
URLSearchParams_toString(list) ==
  IF list = <<>> THEN <<>>
  ELSE LET pair == FormEncode(list[1][1]) \o <<"=">> \o FormEncode(list[1][2])
       IN IF Len(list) = 1 THEN pair
          ELSE pair \o <<"&">> \o URLSearchParams_toString(Tail(list))

-----------------------------------------------------------------------------
(* JSON.  A value is <<"str", s>>, <<"num", n>>, <<"arr", items>> or        *)
(* <<"obj", members>>, members being <<key, value>> pairs in property       *)
(* order.  The text grammar is compact JSON over strings (escapes \" \\     *)
(* \/), non-negative integers, arrays and objects.                          *)

JStr(s) == <<"str", s>>

JNum(n) == <<"num", n>>

JArr(items) == <<"arr", items>>

JObj(members) == <<"obj", members>>

\* QuoteJSONString, one character.
QuoteChar(ch) ==
  CASE ch = "\"" -> <<"\\", "\"">>
    [] ch = "\\" -> <<"\\", "\\">>
    [] OTHER -> <<ch>>

RECURSIVE QuoteBody(_)
QuoteBody(s) ==
  IF s = <<>> THEN <<>> ELSE QuoteChar(Head(s)) \o QuoteBody(Tail(s))

Quote(s) == <<"\"">> \o QuoteBody(s) \o <<"\"">>

\* JSON.stringify(v).
RECURSIVE JSON_stringify(_)
RECURSIVE StringifyItems(_)
RECURSIVE StringifyMembers(_)
JSON_stringify(v) ==
  CASE v[1] = "str" -> Quote(v[2])
    [] v[1] = "num" -> NumberToString(v[2])
    [] v[1] = "arr" -> <<"[">> \o StringifyItems(v[2]) \o <<"]">>
    [] v[1] = "obj" -> <<"{">> \o StringifyMembers(v[2]) \o <<"}">>

StringifyItems(items) ==
  IF items = <<>> THEN <<>>
  ELSE IF Len(items) = 1 THEN JSON_stringify(items[1])
  ELSE JSON_stringify(items[1]) \o <<",">> \o StringifyItems(Tail(items))

StringifyMembers(ms) ==
  IF ms = <<>> THEN <<>>
  ELSE LET m == Quote(ms[1][1]) \o <<":">> \o JSON_stringify(ms[1][2])
       IN IF Len(ms) = 1 THEN m
          ELSE m \o <<",">> \o StringifyMembers(Tail(ms))

ParseFail == [ok |-> FALSE, val |-> <<>>, next |-> 0]

IsDigit(ch) == \E d \in 1..10 : Digits[d] = ch

DigitValue(ch) == (CHOOSE d \in 1..10 : Digits[d] = ch) - 1

\* A string literal's characters from position i, after the opening quote.
RECURSIVE ParseStringBody(_, _, _)
ParseStringBody(s, i, acc) ==
  IF i > Len(s) THEN ParseFail
  ELSE IF s[i] = "\"" THEN [ok |-> TRUE, val |-> acc, next |-> i + 1]
  ELSE IF s[i] = "\\"
       THEN IF i + 1 <= Len(s) /\ s[i + 1] \in {"\"", "\\", "/"}
            THEN ParseStringBody(s, i + 2, Append(acc, s[i + 1]))
            ELSE ParseFail
  ELSE ParseStringBody(s, i + 1, Append(acc, s[i]))

\* The digits of a number from position i.
RECURSIVE ParseDigits(_, _, _)
ParseDigits(s, i, acc) ==
  IF i <= Len(s) /\ IsDigit(s[i])
  THEN ParseDigits(s, i + 1, 10 * acc + DigitValue(s[i]))
  ELSE [ok |-> TRUE, val |-> acc, next |-> i]

\* A member list keeps one entry per key: a repeated key overwrites.
PutMember(ms, k, v) ==
  IF \E j \in 1..Len(ms) : ms[j][1] = k
  THEN [ms EXCEPT ![CHOOSE j \in 1..Len(ms) : ms[j][1] = k] = <<k, v>>]
  ELSE Append(ms, <<k, v>>)

RECURSIVE ParseValue(_, _)
RECURSIVE ParseElements(_, _, _)
RECURSIVE ParseMembers(_, _, _)
ParseValue(s, i) ==
  IF i > Len(s) THEN ParseFail
  ELSE IF s[i] = "\""
       THEN LET r == ParseStringBody(s, i + 1, <<>>)
            IN IF r.ok THEN [r EXCEPT !.val = JStr(r.val)] ELSE ParseFail
  ELSE IF IsDigit(s[i])
       THEN IF s[i] = "0" /\ i + 1 <= Len(s) /\ IsDigit(s[i + 1])
            THEN ParseFail
            ELSE LET r == ParseDigits(s, i, 0)
                 IN [r EXCEPT !.val = JNum(r.val)]
  ELSE IF s[i] = "["
       THEN IF i + 1 <= Len(s) /\ s[i + 1] = "]"
            THEN [ok |-> TRUE, val |-> JArr(<<>>), next |-> i + 2]
            ELSE ParseElements(s, i + 1, <<>>)
  ELSE IF s[i] = "{"
       THEN IF i + 1 <= Len(s) /\ s[i + 1] = "}"
            THEN [ok |-> TRUE, val |-> JObj(<<>>), next |-> i + 2]
            ELSE ParseMembers(s, i + 1, <<>>)
  ELSE ParseFail

ParseElements(s, i, acc) ==
  LET r == ParseValue(s, i)
  IN IF ~r.ok \/ r.next > Len(s) THEN ParseFail
     ELSE IF s[r.next] = ","
          THEN ParseElements(s, r.next + 1, Append(acc, r.val))
     ELSE IF s[r.next] = "]"
          THEN [ok |-> TRUE, val |-> JArr(Append(acc, r.val)), next |-> r.next + 1]
     ELSE ParseFail

ParseMembers(s, i, acc) ==
  IF i > Len(s) \/ s[i] # "\"" THEN ParseFail
  ELSE LET k == ParseStringBody(s, i + 1, <<>>)
       IN IF ~k.ok \/ k.next > Len(s) \/ s[k.next] # ":" THEN ParseFail
          ELSE LET r == ParseValue(s, k.next + 1)
                   ms == PutMember(acc, k.val, r.val)
               IN IF ~r.ok \/ r.next > Len(s) THEN ParseFail
                  ELSE IF s[r.next] = ","
                       THEN ParseMembers(s, r.next + 1, ms)
                  ELSE IF s[r.next] = "}"
                       THEN [ok |-> TRUE, val |-> JObj(ms), next |-> r.next + 1]
                  ELSE ParseFail

\* JSON.parse(text): the value, or a SyntaxError.
JSON_parse(text) ==
  LET r == ParseValue(text, 1)
  IN IF r.ok /\ r.next = Len(text) + 1
     THEN [ok |-> TRUE, val |-> r.val]
     ELSE [ok |-> FALSE, val |-> <<>>]

-----------------------------------------------------------------------------
(* State.                                                                  *)

VARIABLES
  env,        \* process.env.NEXT_PUBLIC_API_URL now (optional string)
  loadEnv,    \* its value when the module was loaded
  API_URL,    \* the module constant API_URL
  pc,         \* per call slot: "idle", "awaiting", "returned", "thrown"
  op,         \* per call slot: the operation called
  args,       \* per call slot: the argument of the call
  sent,       \* per call slot: the requests handed to fetch by this call
  resp,       \* per call slot: how the fetch promise settled (optional)
  bodyUsed,   \* per call slot: whether the response body was read
  outcome     \* per call slot: the settled result of the call (optional)

vars == <<env, loadEnv, API_URL, pc, op, args, sent, resp, bodyUsed, outcome>>

callVars == <<pc, op, args, sent, resp, bodyUsed, outcome>>

-----------------------------------------------------------------------------
(* Requests, responses and errors.                                         *)

\* fetch(url) with no init: GET, no header, no body.
Get(url) == [method |-> "GET", url |-> url, headers |-> {}, body |-> None]

Response(status, body) ==
  [kind |-> "response", status |-> status, body |-> body, error |-> <<>>]

Rejection(error) ==
  [kind |-> "reject", status |-> 0, body |-> <<>>, error |-> error]

\* new Error(message)
Error(message) == <<"Error", message>>

\* What JSON.parse throws.
SyntaxError == <<"SyntaxError", "Unexpected token in JSON">>

\* Variant: a redirect status counted as success.
Ok_lenient(r) == r.status >= 200 /\ r.status < 400

\* Response.ok: the status is in the range 200-299.
Ok(r) == r.status >= 200 /\ r.status <= 299

\* params?.f
Field(params, f) == IF params = None THEN None ELSE params[1][f]

-----------------------------------------------------------------------------
(* Request construction of each operation.                                 *)

\* The URLSearchParams list getContracts builds.
QueryParams(params) ==
  LET q0 == <<>>
      q1 == IF TruthyString(Field(params, "query"))
            THEN Append(q0, <<S_query, Field(params, "query")[1]>>) ELSE q0
      q2 == IF TruthyString(Field(params, "network"))
            THEN Append(q1, <<S_network, Field(params, "network")[1]>>) ELSE q1
      q3 == IF Field(params, "verified_only") # None
            THEN Append(q2, <<S_verified_only,
                              BooleanToString(Field(params, "verified_only")[1])>>)
            ELSE q2
      q4 == IF TruthyString(Field(params, "category"))
            THEN Append(q3, <<S_category, Field(params, "category")[1]>>) ELSE q3
      q5 == IF TruthyNumber(Field(params, "page"))
            THEN Append(q4, <<S_page, NumberToString(Field(params, "page")[1])>>)
            ELSE q4
      q6 == IF TruthyNumber(Field(params, "page_size"))
            THEN Append(q5, <<S_page_size,
                              NumberToString(Field(params, "page_size")[1])>>)
            ELSE q5
  IN q6

\* Variant: tags serialised as one more pair, one per tag.
getContractsRequest_tags(base, params) ==
  LET tags == IF Field(params, "tags") = None THEN <<>> ELSE Field(params, "tags")[1]
  IN Get(base \o S_api_contracts \o <<"?">>
         \o URLSearchParams_toString(
              QueryParams(params) \o [i \in 1..Len(tags) |-> <<S_tags, tags[i]>>]))

\* Variant: the '?' left out when there is nothing to send.
getContractsRequest_bare(base, params) ==
  IF QueryParams(params) = <<>> THEN Get(base \o S_api_contracts)
  ELSE Get(base \o S_api_contracts \o <<"?">>
           \o URLSearchParams_toString(QueryParams(params)))

getContractsRequest(base, params) ==
  Get(base \o S_api_contracts \o <<"?">> \o URLSearchParams_toString(QueryParams(params)))

getContractRequest(base, id) ==
  Get(base \o S_api_contracts \o <<"/">> \o id)

getContractVersionsRequest(base, id) ==
  Get(base \o S_api_contracts \o <<"/">> \o id \o S_versions)

\* Variant: the object passed as the body without JSON.stringify, which
\* fetch converts with String(): '[object Object]'.
publishContractRequest_raw(base, data) ==
  [method |-> "POST",
   url |-> base \o S_api_contracts,
   headers |-> {<<S_ContentType, S_application_json>>},
   body |-> Some(<<"[", "o", "b", "j", "e", "c", "t", " ", "O", "b", "j", "e", "c", "t", "]">>)]

publishContractRequest(base, data) ==
  [method |-> "POST",
   url |-> base \o S_api_contracts,
   headers |-> {<<S_ContentType, S_application_json>>},
   body |-> Some(JSON_stringify(data))]

getPublisherRequest(base, id) ==
  Get(base \o S_api_publishers \o <<"/">> \o id)

getPublisherContractsRequest(base, id) ==
  Get(base \o S_api_publishers \o <<"/">> \o id \o S_contracts)

getStatsRequest(base) ==
  Get(base \o S_api_stats)

-----------------------------------------------------------------------------
(* The two halves of an async operation: up to `await fetch(...)`, and      *)
(* from the settled fetch promise to the settled call.                      *)

\* A slot holds one call: it can start while the slot is unused.
CanCall(c) == pc[c] = "idle"

\* The call starts: fetch is handed the request and the call suspends.
Begin(c, o, a, req) ==
  /\ CanCall(c)
  /\ pc' = [pc EXCEPT ![c] = "awaiting"]
  /\ op' = [op EXCEPT ![c] = o]
  /\ args' = [args EXCEPT ![c] = a]
  /\ sent' = [sent EXCEPT ![c] = <<req>>]
  /\ resp' = [resp EXCEPT ![c] = None]
  /\ bodyUsed' = [bodyUsed EXCEPT ![c] = FALSE]
  /\ outcome' = [outcome EXCEPT ![c] = None]
  /\ UNCHANGED <<env, loadEnv, API_URL>>

\* Variant: `response` kept in one module-level variable shared by all
\* calls, holding the first settled response.
ResponseOf_shared(c) ==
  resp[CHOOSE d \in Calls : resp[d] # None /\ \A e \in Calls : resp[e] # None => d <= e][1]

\* The value bound to `response` when the await resumes.
ResponseOf(c) == resp[c][1]

\* Variant: the body returned as text, response.text() for response.json().
Result_text(message, r) ==
  IF r.kind = "reject"
  THEN [pc |-> "thrown", outcome |-> <<"error", r.error>>, bodyUsed |-> FALSE]
  ELSE IF ~(r.status >= 200 /\ r.status <= 299)
  THEN [pc |-> "thrown", outcome |-> <<"error", Error(message)>>, bodyUsed |-> FALSE]
  ELSE [pc |-> "returned", outcome |-> <<"value", JStr(r.body)>>, bodyUsed |-> TRUE]

\* Variant: the whole operation in a try/catch that throws its own message.
Result_wrapped(message, r) ==
  IF r.kind = "reject"
  THEN [pc |-> "thrown", outcome |-> <<"error", Error(message)>>, bodyUsed |-> FALSE]
  ELSE IF ~(r.status >= 200 /\ r.status <= 299)
  THEN [pc |-> "thrown", outcome |-> <<"error", Error(message)>>, bodyUsed |-> FALSE]
  ELSE LET p == JSON_parse(r.body)
       IN IF p.ok
          THEN [pc |-> "returned", outcome |-> <<"value", p.val>>, bodyUsed |-> TRUE]
          ELSE [pc |-> "thrown", outcome |-> <<"error", Error(message)>>, bodyUsed |-> TRUE]

\* What the rest of an operation does with the settled fetch promise r:
\* a rejection is rethrown by the await, a non-ok response throws the
\* operation's message, an ok response is read and parsed by response.json().
Result(message, r) ==
  IF r.kind = "reject"
  THEN [pc |-> "thrown", outcome |-> <<"error", r.error>>, bodyUsed |-> FALSE]
  ELSE IF ~Ok(r)
  THEN [pc |-> "thrown", outcome |-> <<"error", Error(message)>>, bodyUsed |-> FALSE]
  ELSE LET p == JSON_parse(r.body)
       IN IF p.ok
          THEN [pc |-> "returned", outcome |-> <<"value", p.val>>, bodyUsed |-> TRUE]
          ELSE [pc |-> "thrown", outcome |-> <<"error", SyntaxError>>, bodyUsed |-> TRUE]

\* The await of call o in slot c can resume: its own fetch promise settled.
Resumable(c, o) ==
  /\ pc[c] = "awaiting"
  /\ op[c] = o
  /\ resp[c] # None

\* Variant: a non-ok response answered by sending the request once more.
Resume_retry(c, o, message) ==
  /\ pc[c] = "awaiting"
  /\ op[c] = o
  /\ resp[c] # None
  /\ IF resp[c][1].kind = "response" /\ ~(resp[c][1].status >= 200 /\ resp[c][1].status <= 299)
        /\ Len(sent[c]) < 2
     THEN /\ sent' = [sent EXCEPT ![c] = Append(@, @[1])]
          /\ resp' = [resp EXCEPT ![c] = None]
          /\ UNCHANGED <<pc, outcome, bodyUsed>>
     ELSE /\ LET res == Result(message, resp[c][1])
             IN /\ pc' = [pc EXCEPT ![c] = res.pc]
                /\ outcome' = [outcome EXCEPT ![c] = Some(res.outcome)]
                /\ bodyUsed' = [bodyUsed EXCEPT ![c] = res.bodyUsed]
          /\ UNCHANGED <<sent, resp>>
  /\ UNCHANGED <<env, loadEnv, API_URL, op, args>>

\* The call o in slot c resumes after its await and settles.
Resume(c, o, message) ==
  /\ Resumable(c, o)
  /\ LET res == Result(message, ResponseOf(c))
     IN /\ pc' = [pc EXCEPT ![c] = res.pc]
        /\ outcome' = [outcome EXCEPT ![c] = Some(res.outcome)]
        /\ bodyUsed' = [bodyUsed EXCEPT ![c] = res.bodyUsed]
  /\ UNCHANGED <<env, loadEnv, API_URL, op, args, sent, resp>>

-----------------------------------------------------------------------------
(* Operations of `api`.                                                    *)

getContracts(c, params) ==
  Begin(c, "getContracts", params, getContractsRequest(API_URL, params))

getContracts_resume(c) ==
  Resume(c, "getContracts", "Failed to fetch contracts")

\* Variant: the environment read at each call.
getContract_envNow(c, id) ==
  Begin(c, "getContract", id, getContractRequest(OrElse(env, DEFAULT_API_URL), id))

getContract(c, id) ==
  Begin(c, "getContract", id, getContractRequest(API_URL, id))

getContract_resume(c) ==
  Resume(c, "getContract", "Failed to fetch contract")

getContractVersions(c, id) ==
  Begin(c, "getContractVersions", id, getContractVersionsRequest(API_URL, id))

getContractVersions_resume(c) ==
  Resume(c, "getContractVersions", "Failed to fetch contract versions")

publishContract(c, data) ==
  Begin(c, "publishContract", data, publishContractRequest(API_URL, data))

publishContract_resume(c) ==
  Resume(c, "publishContract", "Failed to publish contract")

getPublisher(c, id) ==
  Begin(c, "getPublisher", id, getPublisherRequest(API_URL, id))

getPublisher_resume(c) ==
  Resume(c, "getPublisher", "Failed to fetch publisher")

getPublisherContracts(c, id) ==
  Begin(c, "getPublisherContracts", id, getPublisherContractsRequest(API_URL, id))

getPublisherContracts_resume(c) ==
  Resume(c, "getPublisherContracts", "Failed to fetch publisher contracts")

getStats(c) ==
  Begin(c, "getStats", None, getStatsRequest(API_URL))

getStats_resume(c) ==
  Resume(c, "getStats", "Failed to fetch stats")

-----------------------------------------------------------------------------
(* The environment: the transport settles a pending fetch, and the         *)
(* process environment may change after the module is loaded.              *)

\* The fetch promise of call c settles with r (a response or a rejection).
FetchSettles(c, r) ==
  /\ pc[c] = "awaiting"
  /\ resp[c] = None
  /\ resp' = [resp EXCEPT ![c] = Some(r)]
  /\ UNCHANGED <<env, loadEnv, API_URL, pc, op, args, sent, bodyUsed, outcome>>

\* process.env.NEXT_PUBLIC_API_URL is reassigned (or deleted) at run time.
SetEnv(v) ==
  /\ v # env
  /\ env' = v
  /\ UNCHANGED <<loadEnv, API_URL, callVars>>

\* Module load: `const API_URL = process.env.NEXT_PUBLIC_API_URL || '...'`.
ModuleLoad(e) ==
  /\ env = e
  /\ loadEnv = e
  /\ API_URL = OrElse(e, DEFAULT_API_URL)

-----------------------------------------------------------------------------
(* Inputs.                                                                 *)

S_http_h == <<"h", "t", "t", "p", ":", "/", "/", "h">>

S_testnet == <<"t", "e", "s", "t", "n", "e", "t">>

\* NEXT_PUBLIC_API_URL: unset, set to '', set to 'http://h'.
EnvValues == {None, Some(<<>>), Some(S_http_h)}

\* ContractSearchParams: every field absent, falsy or truthy.
ParamsRecords ==
  [query : {None, Some(<<>>), Some(<<"a", " ", "&">>)},
   network : {None, Some(S_testnet)},
   verified_only : {None, Some(FALSE), Some(TRUE)},
   category : {None, Some(<<>>), Some(<<"d", "e", "f", "i">>)},
   tags : {None, Some(<<>>), Some(<< <<"t">> >>)},
   page : {None, Some(0), Some(12)},
   page_size : {None, Some(0), Some(5)}]

\* getContracts() with no argument is None.
AllParams == {None} \cup {Some(p) : p \in ParamsRecords}

EmptyParams ==
  [query |-> None, network |-> None, verified_only |-> None, category |-> None,
   tags |-> None, page |-> None, page_size |-> None]

FalsyParams ==
  [query |-> Some(<<>>), network |-> None, verified_only |-> Some(FALSE),
   category |-> Some(<<>>), tags |-> Some(<<>>), page |-> Some(0),
   page_size |-> Some(0)]

FullParams ==
  [query |-> Some(<<"a", " ", "&">>), network |-> Some(S_testnet),
   verified_only |-> Some(TRUE), category |-> Some(<<"d", "e", "f", "i">>),
   tags |-> Some(<< <<"t">> >>), page |-> Some(12), page_size |-> Some(5)]

SomeParams == {None, Some(EmptyParams), Some(FalsyParams), Some(FullParams)}

Ids == {<<"x">>, <<"4", "2">>}

\* A PublishRequest object literal; an absent optional field has no member.
MkPublishRequest(name, description, category, tags) ==
  JObj(<< <<(<<"c", "o", "n", "t", "r", "a", "c", "t", "_", "i", "d">>), JStr(<<"C", "A", "1">>)>>,
          <<(<<"n", "a", "m", "e">>), JStr(name)>> >>
       \o (IF description = None THEN <<>>
           ELSE << <<(<<"d", "e", "s", "c", "r", "i", "p", "t", "i", "o", "n">>),
                     JStr(description[1])>> >>)
       \o << <<S_network, JStr(S_testnet)>> >>
       \o (IF category = None THEN <<>>
           ELSE << <<S_category, JStr(category[1])>> >>)
       \o << <<S_tags, JArr([i \in 1..Len(tags) |-> JStr(tags[i])])>>,
             <<(<<"p", "u", "b", "l", "i", "s", "h", "e", "r", "_", "a", "d", "d", "r", "e", "s", "s">>),
               JStr(<<"G", "A">>)>> >>)

PublishRequests ==
  {MkPublishRequest(n, d, cat, tg) :
     n \in {<<"n">>, <<"a", "\"", "b">>, <<"\\">>},
     d \in {None, Some(<<>>), Some(<<"d">>)},
     cat \in {None, Some(<<"c">>)},
     tg \in {<<>>, << <<"t">>, <<"u">> >>}}

\* '{"id":"x","tags":["t"],"total":12}'
BodyJson ==
  <<"{", "\"", "i", "d", "\"", ":", "\"", "x", "\"", ",", "\"", "t", "a", "g", "s", "\"", ":", "[", "\"", "t", "\"", "]", ",", "\"", "t", "o", "t", "a", "l", "\"", ":", "1", "2", "}">>

\* '{"id":' : a body cut short
BodyCut == <<"{", "\"", "i", "d", "\"", ":">>

Statuses == {199, 200, 201, 299, 300, 404, 500}

Bodies == {BodyJson, BodyCut, <<>>}

Responses == {Response(s, b) : s \in Statuses, b \in Bodies}

Rejections ==
  {Rejection(<<"TypeError", "fetch failed">>),
   Rejection(<<"AbortError", "The operation was aborted">>)}

Settlements == Responses \cup Rejections

FewSettlements ==
  {Response(200, BodyJson), Response(404, BodyJson),
   Rejection(<<"TypeError", "fetch failed">>)}

-----------------------------------------------------------------------------
(* Specifications.                                                         *)

Init ==
  /\ \E e \in EnvValues : ModuleLoad(e)
  /\ pc = [c \in Calls |-> "idle"]
  /\ op = [c \in Calls |-> ""]
  /\ args = [c \in Calls |-> None]
  /\ sent = [c \in Calls |-> <<>>]
  /\ resp = [c \in Calls |-> None]
  /\ bodyUsed = [c \in Calls |-> FALSE]
  /\ outcome = [c \in Calls |-> None]

\* One call of any operation, any settlement, the environment changing.
Next ==
  \/ \E params \in SomeParams : getContracts(1, params)
  \/ getContracts_resume(1)
  \/ \E id \in Ids : getContract(1, id)
  \/ getContract_resume(1)
  \/ \E id \in Ids : getContractVersions(1, id)
  \/ getContractVersions_resume(1)
  \/ \E data \in PublishRequests : publishContract(1, data)
  \/ publishContract_resume(1)
  \/ \E id \in Ids : getPublisher(1, id)
  \/ getPublisher_resume(1)
  \/ \E id \in Ids : getPublisherContracts(1, id)
  \/ getPublisherContracts_resume(1)
  \/ getStats(1)
  \/ getStats_resume(1)
  \/ \E r \in Settlements : FetchSettles(1, r)
  \/ \E v \in EnvValues : SetEnv(v)

Spec == Init /\ [][Next]_vars

\* getContracts over every ContractSearchParams value.
NextParams ==
  \/ \E params \in AllParams : getContracts(1, params)
  \/ getContracts_resume(1)
  \/ \E r \in FewSettlements : FetchSettles(1, r)

SpecParams == Init /\ [][NextParams]_vars

\* Several calls in flight at once, settled in any order or never.
InitConc == Init /\ env = None

NextConc ==
  \E c \in Calls :
    \/ getContracts(c, None)
    \/ getContracts_resume(c)
    \/ \E id \in Ids : getContract(c, id)
    \/ getContract_resume(c)
    \/ getContractVersions(c, <<"x">>)
    \/ getContractVersions_resume(c)
    \/ publishContract(c, MkPublishRequest(<<"n">>, None, None, <<>>))
    \/ publishContract_resume(c)
    \/ getPublisher(c, <<"x">>)
    \/ getPublisher_resume(c)
    \/ getPublisherContracts(c, <<"x">>)
    \/ getPublisherContracts_resume(c)
    \/ getStats(c)
    \/ getStats_resume(c)
    \/ \E r \in FewSettlements : FetchSettles(c, r)

SpecConc == InitConc /\ [][NextConc]_vars

-----------------------------------------------------------------------------
(* What the receiving server sees in a request: helpers of the properties. *)

Started(c) == pc[c] # "idle"

Done(c) == pc[c] \in {"returned", "thrown"}

IsPrefix(p, s) == Len(p) <= Len(s) /\ SubSeq(s, 1, Len(p)) = p

\* Position of the first ch in s, 0 when there is none.
IndexOf(s, ch) ==
  IF \E i \in 1..Len(s) : s[i] = ch
  THEN CHOOSE i \in 1..Len(s) : s[i] = ch /\ \A j \in 1..(i - 1) : s[j] # ch
  ELSE 0

\* The part of a URL after its first '?'.
QueryString(url) ==
  LET i == IndexOf(url, "?")
  IN IF i = 0 THEN <<>> ELSE SubSeq(url, i + 1, Len(url))

\* s cut at every ch.
RECURSIVE SplitOn(_, _)
SplitOn(s, ch) ==
  LET i == IndexOf(s, ch)
  IN IF i = 0 THEN <<s>>
     ELSE <<SubSeq(s, 1, i - 1)>> \o SplitOn(SubSeq(s, i + 1, Len(s)), ch)

\* application/x-www-form-urlencoded decoding.
RECURSIVE FormDecode(_)
FormDecode(s) ==
  IF s = <<>> THEN <<>>
  ELSE IF Head(s) = "+" THEN <<" ">> \o FormDecode(Tail(s))
  ELSE IF Head(s) = "%" /\ Len(s) >= 3
       THEN LET code == <<s[2], s[3]>>
                ch == CASE code = <<"2", "6">> -> "&"
                        [] code = <<"3", "D">> -> "="
                        [] code = <<"2", "B">> -> "+"
                        [] code = <<"2", "5">> -> "%"
                        [] code = <<"3", "F">> -> "?"
                        [] code = <<"2", "F">> -> "/"
            IN <<ch>> \o FormDecode(SubSeq(s, 4, Len(s)))
  ELSE <<Head(s)>> \o FormDecode(Tail(s))

\* The name=value pairs a server parses out of the URL's query string.
QueryPairs(url) ==
  LET pieces == SplitOn(QueryString(url), "&")
      pairOf(piece) ==
        LET i == IndexOf(piece, "=")
        IN IF i = 0 THEN <<FormDecode(piece), <<>>>>
           ELSE <<FormDecode(SubSeq(piece, 1, i - 1)),
                  FormDecode(SubSeq(piece, i + 1, Len(piece)))>>
  IN {pairOf(pieces[k]) : k \in {j \in 1..Len(pieces) : pieces[j] # <<>>}}

QueryKeys(url) == {pr[1] : pr \in QueryPairs(url)}

\* The six fields of ContractSearchParams the query string may carry.
SearchFields ==
  {"query", "network", "verified_only", "category", "page", "page_size"}

KeyOf(f) ==
  CASE f = "query" -> S_query
    [] f = "network" -> S_network
    [] f = "verified_only" -> S_verified_only
    [] f = "category" -> S_category
    [] f = "page" -> S_page
    [] f = "page_size" -> S_page_size

GetContractsCalls == {c \in Calls : Started(c) /\ op[c] = "getContracts"}

-----------------------------------------------------------------------------
(* C1 *)

\* C1 (as stated): the keys of the query string of a getContracts request
\* are exactly the six fields that are present and not undefined in the
\* input, '' / 0 / false included.
C1_KeysArePresentFields ==
  \A c \in GetContractsCalls :
    QueryKeys(sent[c][1].url)
      = {KeyOf(f) : f \in {g \in SearchFields : Field(args[c], g) # None}}

\* A field as the code's conditions see it: verified_only whenever it is
\* not undefined, the other five only when truthy.
Serialised(params, f) ==
  /\ Field(params, f) # None
  /\ f \in {"query", "network", "category"} => Field(params, f)[1] # <<>>
  /\ f \in {"page", "page_size"} => Field(params, f)[1] # 0

\* C1 (amended): the keys of the query string are exactly verified_only
\* when it is present and not undefined (true or false), and each of query,
\* network, category, page, page_size that is present with a truthy value;
\* a field set to '' or 0 is left out like an absent one.
C1_KeysAreTruthyFields ==
  \A c \in GetContractsCalls :
    QueryKeys(sent[c][1].url)
      = {KeyOf(f) : f \in {g \in SearchFields : Serialised(args[c], g)}}

\* A request for query '', verified_only false, page 12, page_size 0.
C1_Witness ==
  /\ 1 \in GetContractsCalls
  /\ args[1] # None
  /\ args[1][1].query = Some(<<>>)
  /\ args[1][1].verified_only = Some(FALSE)
  /\ args[1][1].page = Some(12)
  /\ args[1][1].page_size = Some(0)
  /\ QueryKeys(sent[1][1].url) = {S_verified_only, S_page}

-----------------------------------------------------------------------------
(* C6, C7 *)

WithoutTags(params) ==
  IF params = None THEN None ELSE Some([params[1] EXCEPT !.tags = None])

\* C6: whatever the tags field holds, the getContracts request carries no
\* 'tags' key and is the request issued for the same input without tags.
C6_TagsNeverSerialised ==
  \A c \in GetContractsCalls :
    /\ S_tags \notin QueryKeys(sent[c][1].url)
    /\ sent[c] = <<getContractsRequest(API_URL, WithoutTags(args[c]))>>

\* A request for an input whose tags list is not empty.
C6_Witness ==
  /\ 1 \in GetContractsCalls
  /\ args[1] # None
  /\ args[1][1].tags = Some(<< <<"t">> >>)
  /\ args[1][1].query = Some(<<"a", " ", "&">>)

\* C7: getContracts({}) and getContracts() issue GET <base URL>/api/contracts?
\* with an empty query string.
C7_EmptyParamsEmptyQuery ==
  \A c \in GetContractsCalls :
    args[c] \in {None, Some(EmptyParams)} =>
      /\ sent[c] = <<[method |-> "GET",
                      url |-> API_URL \o S_api_contracts \o <<"?">>,
                      headers |-> {},
                      body |-> None]>>
      /\ QueryString(sent[c][1].url) = <<>>
      /\ QueryKeys(sent[c][1].url) = {}

\* getContracts({}) has issued its request.
C7_Witness ==
  /\ 1 \in GetContractsCalls
  /\ args[1] = Some(EmptyParams)
  /\ Len(sent[1]) = 1

-----------------------------------------------------------------------------
(* C2, C3, C4, C5, C8, C10 *)

\* The fixed message of each operation.
MessageOf(o) ==
  CASE o = "getContracts" -> "Failed to fetch contracts"
    [] o = "getContract" -> "Failed to fetch contract"
    [] o = "getContractVersions" -> "Failed to fetch contract versions"
    [] o = "publishContract" -> "Failed to publish contract"
    [] o = "getPublisher" -> "Failed to fetch publisher"
    [] o = "getPublisherContracts" -> "Failed to fetch publisher contracts"
    [] o = "getStats" -> "Failed to fetch stats"

\* The call's fetch was answered by a response with a 2xx status.
Answered2xx(c) ==
  /\ resp[c] # None
  /\ resp[c][1].kind = "response"
  /\ resp[c][1].status \in 200..299

AnsweredNon2xx(c) ==
  /\ resp[c] # None
  /\ resp[c][1].kind = "response"
  /\ resp[c][1].status \notin 200..299

Rejected(c) == resp[c] # None /\ resp[c][1].kind = "reject"

\* C2: a response with a status outside 200-299, whatever its body, makes
\* the call fail with the operation's own message; no value is returned and
\* the body is not read.
C2_Non2xxThrowsOwnMessage ==
  \A c \in Calls :
    Done(c) /\ AnsweredNon2xx(c) =>
      /\ pc[c] = "thrown"
      /\ outcome[c] = Some(<<"error", <<"Error", MessageOf(op[c])>>>>)
      /\ ~bodyUsed[c]

\* publishContract answered 300 with a body that is not JSON, and settled.
C2_Witness ==
  /\ Done(1)
  /\ op[1] = "publishContract"
  /\ AnsweredNon2xx(1)
  /\ resp[1][1].status = 300
  /\ resp[1][1].body = BodyCut

\* Method and path of each operation's row of the interface table.
RowMethod(o) == IF o = "publishContract" THEN "POST" ELSE "GET"

RowPath(o, a) ==
  CASE o = "getContracts" -> S_api_contracts \o <<"?">>
    [] o = "getContract" -> S_api_contracts \o <<"/">> \o a
    [] o = "getContractVersions" -> S_api_contracts \o <<"/">> \o a \o S_versions
    [] o = "publishContract" -> S_api_contracts
    [] o = "getPublisher" -> S_api_publishers \o <<"/">> \o a
    [] o = "getPublisherContracts" -> S_api_publishers \o <<"/">> \o a \o S_contracts
    [] o = "getStats" -> S_api_stats

\* C3: a call issues exactly one request over its whole lifetime, settled
\* or not, with the method and path of its operation's row after the base
\* URL (for getContracts the path is followed by the query string).
C3_OneRequestPerCall ==
  \A c \in Calls :
    Started(c) =>
      /\ Len(sent[c]) = 1
      /\ sent[c][1].method = RowMethod(op[c])
      /\ IF op[c] = "getContracts"
         THEN /\ IsPrefix(API_URL \o RowPath(op[c], args[c]), sent[c][1].url)
              /\ IndexOf(sent[c][1].url, "?") = Len(API_URL \o S_api_contracts) + 1
         ELSE sent[c][1].url = API_URL \o RowPath(op[c], args[c])

\* getContractVersions('42') failed on a 500 response.
C3_Witness ==
  /\ pc[1] = "thrown"
  /\ op[1] = "getContractVersions"
  /\ args[1] = <<"4", "2">>
  /\ AnsweredNon2xx(1)
  /\ resp[1][1].status = 500

\* C4: publishContract(d) issues POST /api/contracts with the header
\* Content-Type: application/json and a body that is JSON text decoding to d,
\* with exactly the fields of d.
C4_PublishBodyRoundTrips ==
  \A c \in Calls :
    Started(c) /\ op[c] = "publishContract" =>
      LET req == sent[c][1]
      IN /\ req.method = "POST"
         /\ req.url = API_URL \o S_api_contracts
         /\ <<S_ContentType, S_application_json>> \in req.headers
         /\ req.body # None
         /\ JSON_parse(req.body[1]).ok
         /\ JSON_parse(req.body[1]).val = args[c]
         /\ {m[1] : m \in {JSON_parse(req.body[1]).val[2][k] :
                             k \in 1..Len(JSON_parse(req.body[1]).val[2])}}
              = {args[c][2][k][1] : k \in 1..Len(args[c][2])}

\* A PublishRequest whose name holds a double quote, with no description
\* and two tags, has been sent.
C4_Witness ==
  /\ Started(1)
  /\ op[1] = "publishContract"
  /\ args[1] = MkPublishRequest(<<"a", "\"", "b">>, None, Some(<<"c">>),
                                << <<"t">>, <<"u">> >>)

\* '{"id":"x","tags":["t"],"total":12}' as a value.
BodyJsonValue ==
  JObj(<< <<(<<"i", "d">>), JStr(<<"x">>)>>,
          <<S_tags, JArr(<<JStr(<<"t">>)>>)>>,
          <<(<<"t", "o", "t", "a", "l">>), JNum(12)>> >>)

\* C5: a 2xx response with a valid JSON body makes the call return exactly
\* the value that body parses to, keys and values unchanged.
C5_ReturnsParsedBody ==
  \A c \in Calls :
    Done(c) /\ Answered2xx(c) /\ JSON_parse(resp[c][1].body).ok =>
      /\ pc[c] = "returned"
      /\ outcome[c] = Some(<<"value", JSON_parse(resp[c][1].body).val>>)
      /\ resp[c][1].body = BodyJson => outcome[c] = Some(<<"value", BodyJsonValue>>)

\* getContract('x') answered 200 with the fixed payload has returned.
C5_Witness ==
  /\ pc[1] = "returned"
  /\ op[1] = "getContract"
  /\ args[1] = <<"x">>
  /\ resp[1] = Some(Response(200, BodyJson))

\* C8: a rejected fetch makes the call fail with the transport's error, and
\* a 2xx response whose body is not valid JSON makes it fail with the
\* parser's error; neither is replaced by the operation's message and no
\* value is returned.
C8_TransportAndParseErrorsPropagate ==
  \A c \in Calls :
    /\ Done(c) /\ Rejected(c) =>
         /\ pc[c] = "thrown"
         /\ outcome[c] = Some(<<"error", resp[c][1].error>>)
    /\ Done(c) /\ Answered2xx(c) /\ ~JSON_parse(resp[c][1].body).ok =>
         /\ pc[c] = "thrown"
         /\ outcome[c] = Some(<<"error", SyntaxError>>)
         /\ outcome[c] # Some(<<"error", <<"Error", MessageOf(op[c])>>>>)

\* publishContract failed on a rejected fetch.
C8_Witness ==
  /\ pc[1] = "thrown"
  /\ op[1] = "publishContract"
  /\ resp[1] = Some(Rejection(<<"TypeError", "fetch failed">>))

RequestsUse(base) ==
  \A c \in Calls :
    Started(c) =>
      /\ IsPrefix(base \o <<"/", "a", "p", "i", "/">>, sent[c][1].url)

\* C10 (as stated): the base URL is the environment variable's value at
\* load if it was set and http://localhost:3001 if it was unset, and every
\* request uses it whatever the environment holds later.
C10_BaseUrlIsEnvIfSet ==
  /\ loadEnv # None => API_URL = loadEnv[1]
  /\ loadEnv = None => API_URL = DEFAULT_API_URL
  /\ RequestsUse(API_URL)

\* C10 (amended): the base URL is the environment variable's value at load
\* if it was set to a non-empty string, and http://localhost:3001 if it was
\* unset or empty; every request uses it whatever the environment holds
\* later.
C10_BaseUrlIsNonEmptyEnv ==
  LET base == IF loadEnv # None /\ loadEnv[1] # <<>>
              THEN loadEnv[1] ELSE DEFAULT_API_URL
  IN /\ API_URL = base
     /\ RequestsUse(base)

\* A request issued after the variable, set at load, was deleted.
C10_Witness ==
  /\ loadEnv = Some(S_http_h)
  /\ env = None
  /\ Started(1)
  /\ op[1] = "getContract"
  /\ IsPrefix(S_http_h \o S_api_contracts, sent[1][1].url)

-----------------------------------------------------------------------------
(* C9 *)

\* The request operation o builds from its own argument and the base URL.
RequestFor(o, a) ==
  CASE o = "getContracts" -> getContractsRequest(API_URL, a)
    [] o = "getContract" -> getContractRequest(API_URL, a)
    [] o = "getContractVersions" -> getContractVersionsRequest(API_URL, a)
    [] o = "publishContract" -> publishContractRequest(API_URL, a)
    [] o = "getPublisher" -> getPublisherRequest(API_URL, a)
    [] o = "getPublisherContracts" -> getPublisherContractsRequest(API_URL, a)
    [] o = "getStats" -> getStatsRequest(API_URL)

\* Everything the model holds about call slot c.
Slot(c) == <<pc[c], op[c], args[c], sent[c], resp[c], bodyUsed[c], outcome[c]>>

\* In every state: a call's request is a function of its own arguments, a
\* settled call's outcome is a function of the response to its own request,
\* and no call waits for another (an unused slot can start a call, a pending
\* fetch can settle, a call whose fetch has settled can resume).
C9_OwnRequestOwnOutcome ==
  \A c \in Calls :
    /\ Started(c) => sent[c] = <<RequestFor(op[c], args[c])>>
    /\ Done(c) =>
         LET res == Result(MessageOf(op[c]), resp[c][1])
         IN pc[c] = res.pc /\ outcome[c] = Some(res.outcome)
    /\ ~Done(c) => outcome[c] = None
    /\ pc[c] = "idle" => ENABLED getStats(c)
    /\ pc[c] = "awaiting" /\ resp[c] = None =>
         ENABLED FetchSettles(c, Response(200, BodyJson))
    /\ pc[c] = "awaiting" /\ resp[c] # None => Resumable(c, op[c])

\* In every step: a call whose response has not arrived stays pending, and
\* a step that changes one call's slot leaves every other slot as it was.
C9_StepsTouchOneCall ==
  \A c \in Calls :
    /\ pc[c] = "awaiting" /\ resp[c] = None =>
         pc'[c] = "awaiting" /\ outcome'[c] = None
    /\ Slot(c)' # Slot(c) => \A d \in Calls \ {c} : Slot(d)' = Slot(d)

\* C9: with several calls in flight and responses arriving in any order,
\* each call's request depends only on its own arguments and the base URL
\* and its outcome only on the response to its own request; no call waits
\* for another, and a call whose response never arrives stays pending
\* without blocking or failing the others.
C9_CallsAreIndependent ==
  []C9_OwnRequestOwnOutcome /\ [][C9_StepsTouchOneCall]_vars

\* Call 1 still waits for its response while call 2, the same operation
\* with another argument, was answered and has returned.
C9_Witness ==
  /\ pc[1] = "awaiting"
  /\ resp[1] = None
  /\ op[1] = "getContract"
  /\ op[2] = "getContract"
  /\ args[1] # args[2]
  /\ pc[2] = "returned"

====
